---------------------------- MODULE Spec2Model ----------------------------
(***************************************************************************)
(* A model of nappo (src/nappo.py): searching NuGet repositories for a    *)
(* package, aggregating the hits of all repositories ordered by version,   *)
(* and selecting one package for download.                                 *)
(*                                                                         *)
(* Text is modelled by TLA+ strings; a character is a string of length 1. *)
(***************************************************************************)
EXTENDS Integers, Sequences, FiniteSets, TLC

VARIABLES
    command,            \* "search" | "download" | "match" | "version"
    package_name,       \* args.package_name
    package_version,    \* args.package_version or None (an Opt record)
    repository_urls,    \* repositories_from_args(args)
    pc,                 \* position in the running command
    i,                  \* 1-based position of the for loop over repository_urls
    j,                  \* the local j of package_search / download_command
    search_service_url, \* the local of package_search (an Opt record)
    packages,           \* the accumulating list (results / packages)
    package,            \* the package download_command selected
    content_service_url,\* the local of download_command (an Opt record)
    download_url,       \* the URL download_command retrieves
    error,              \* the exception that ended the command, or "none"
    fetches,            \* history: every urlopen issued, in order
    calls,              \* history: one record per package_search call
    mv,                 \* state of the matching harness
    vv                  \* state of the version-ordering harness

vars == << command, package_name, package_version, repository_urls, pc, i, j,
           search_service_url, packages, package, content_service_url,
           download_url, error, fetches, calls, mv, vv >>

-----------------------------------------------------------------------------
(* Bounds *)

MaxRepos == 2

MaxLen == 3

-----------------------------------------------------------------------------
(* Python values *)

None == [some |-> FALSE, val |-> ""]

Some(x) == [some |-> TRUE, val |-> x]

\* Python truthiness of an Optional[str]: None and '' are falsy.
Truthy(o) == o.some /\ o.val # ""

\* `s or None`
OrNone(s) == IF s # "" THEN Some(s) ELSE None

Char(s, n) == SubSeq(s, n, n)

\* str.startswith
startswith(s, prefix) ==
    /\ Len(prefix) <= Len(s)
    /\ SubSeq(s, 1, Len(prefix)) = prefix

\* str.endswith
endswith(s, suffix) ==
    /\ Len(suffix) <= Len(s)
    /\ SubSeq(s, Len(s) - Len(suffix) + 1, Len(s)) = suffix

\* The characters used, in ascending code point order.
Alphabet == "*+-.0123456789ABCDEFGHIJKLMNOPQRSTUVWXYZ_abcdefghijklmnopqrstuvwxyz"

Ord(c) == CHOOSE n \in 1..Len(Alphabet) : Char(Alphabet, n) = c

\* Python's < on str: lexicographic by code point, a proper prefix is smaller.
RECURSIVE StrLess(_, _)
StrLess(a, b) ==
    IF b = "" THEN FALSE
    ELSE IF a = "" THEN TRUE
    ELSE IF Head(a) # Head(b) THEN Ord(Head(a)) < Ord(Head(b))
    ELSE StrLess(Tail(a), Tail(b))

-----------------------------------------------------------------------------
(* version_sort_key: packaging.version.parse, the library call of line 237.*)
(* The fragment of its grammar modelled here is                            *)
(*   release  [ [-_.] pre-tag [-_.] [digits] ]  [ + local ]                *)
(* with release = digits ( . digits )*; strings outside it are reported   *)
(* as not valid.  The key is the library's comparison key: the release    *)
(* with trailing zeros stripped, then the pre-release, then the local      *)
(* version, compared as Python tuples.                                     *)

Digits == {"0", "1", "2", "3", "4", "5", "6", "7", "8", "9"}

Separators == {"-", "_", "."}

DigitVal(c) == Ord(c) - Ord("0")

\* The number of leading digits of s.
RECURSIVE DigitsLen(_)
DigitsLen(s) ==
    IF s # "" /\ Head(s) \in Digits THEN 1 + DigitsLen(Tail(s)) ELSE 0

\* int(s) of a string of digits.
RECURSIVE NumVal(_)
NumVal(s) ==
    IF s = "" THEN 0
    ELSE NumVal(SubSeq(s, 1, Len(s) - 1)) * 10 + DigitVal(Char(s, Len(s)))

Drop(s, n) == SubSeq(s, n + 1, Len(s))

\* The release segment: digits ( . digits )*, and what follows it.
RECURSIVE ParseRelease(_)

ReleasePrepend(seg, more) ==
    [release |-> <<seg>> \o more.release, rest |-> more.rest]

ReleaseStep(seg, rest) ==
    IF rest # "" /\ Head(rest) = "." /\ DigitsLen(Tail(rest)) > 0
    THEN ReleasePrepend(seg, ParseRelease(Tail(rest)))
    ELSE [release |-> <<seg>>, rest |-> rest]

ReleaseAt(s, n) == ReleaseStep(NumVal(SubSeq(s, 1, n)), Drop(s, n))

ParseRelease(s) == ReleaseAt(s, DigitsLen(s))

\* The spellings of a pre-release tag and their normal form, longest first.
PreTags == << <<"alpha", "a">>, <<"a", "a">>, <<"beta", "b">>, <<"b", "b">>,
              <<"preview", "rc">>, <<"pre", "rc">>, <<"rc", "rc">>,
              <<"c", "rc">> >>

NoPre == [inf |-> TRUE, l |-> "", n |-> 0]

\* [-_.]?
SkipSeparator(s) == IF s # "" /\ Head(s) \in Separators THEN Tail(s) ELSE s

\* The first spelling in PreTags that body starts with, 0 when none.
FirstTag(body) ==
    LET hits == {n \in 1..Len(PreTags) : startswith(body, PreTags[n][1])}
    IN  IF hits = {} THEN 0 ELSE CHOOSE n \in hits : \A m \in hits : n <= m

PreNumber(l, num, d) ==
    [pre  |-> [inf |-> FALSE, l |-> l, n |-> NumVal(SubSeq(num, 1, d))],
     rest |-> Drop(num, d)]

PreAfterTag(l, num) == PreNumber(l, num, DigitsLen(num))

PreWithTag(body, t) ==
    PreAfterTag(t[2], SkipSeparator(Drop(body, Len(t[1]))))

PreAt(s, body, k) ==
    IF k = 0 THEN [pre |-> NoPre, rest |-> s] ELSE PreWithTag(body, PreTags[k])

PreOf(s, body) == PreAt(s, body, FirstTag(body))

\* The optional pre-release segment, and what follows it.
ParsePre(s) == PreOf(s, SkipSeparator(s))

LowerCase == "abcdefghijklmnopqrstuvwxyz"

UpperCase == "ABCDEFGHIJKLMNOPQRSTUVWXYZ"

AlNum == Digits \cup {Char(LowerCase, n) : n \in 1..Len(LowerCase)}

RECURSIVE AlNumLen(_)
AlNumLen(s) ==
    IF s # "" /\ Head(s) \in AlNum THEN 1 + AlNumLen(Tail(s)) ELSE 0

\* One part of a local version: an int when all digits, else a string.
LocalPart(p) ==
    IF DigitsLen(p) = Len(p) THEN [num |-> TRUE, n |-> NumVal(p), s |-> ""]
    ELSE [num |-> FALSE, n |-> 0, s |-> p]

\* The parts of a local version (the text after "+"), split at separators.
RECURSIVE ParseLocal(_)

LocalPrepend(part, more) ==
    [ok |-> more.ok, parts |-> <<part>> \o more.parts]

LocalAt(part, rest) ==
    IF part = "" THEN [ok |-> FALSE, parts |-> <<>>]
    ELSE IF rest = "" THEN [ok |-> TRUE, parts |-> <<LocalPart(part)>>]
    ELSE IF Head(rest) \in Separators
    THEN LocalPrepend(LocalPart(part), ParseLocal(Tail(rest)))
    ELSE [ok |-> FALSE, parts |-> <<>>]

LocalSplit(s, n) == LocalAt(SubSeq(s, 1, n), Drop(s, n))

ParseLocal(s) == LocalSplit(s, AlNumLen(s))

RECURSIVE StripZeros(_)
StripZeros(r) ==
    IF r # <<>> /\ r[Len(r)] = 0 THEN StripZeros(SubSeq(r, 1, Len(r) - 1))
    ELSE r

\* The optional local version "+..." that ends the string.
LocalOf(rest) ==
    IF rest # "" /\ Head(rest) = "+" THEN ParseLocal(Tail(rest))
    ELSE [ok |-> rest = "", parts |-> <<>>]

VersionKey(r, p, haslocal, l) ==
    [valid    |-> l.ok,
     release  |-> StripZeros(r.release),
     pre      |-> p.pre,
     haslocal |-> haslocal,
     local    |-> l.parts]

KeyAfterPre(r, p) == VersionKey(r, p, p.rest # "", LocalOf(p.rest))

KeyAfterRelease(r) == KeyAfterPre(r, ParsePre(r.rest))

\* packaging.version.parse(version): the comparison key of the version.
version_sort_key(version) ==
    IF DigitsLen(version) = 0
    THEN [valid |-> FALSE, release |-> <<>>, pre |-> NoPre,
          haslocal |-> FALSE, local |-> <<>>]
    ELSE KeyAfterRelease(ParseRelease(version))

\* Python's < on tuples of int.
RECURSIVE TupleLess(_, _)
TupleLess(a, b) ==
    IF b = <<>> THEN FALSE
    ELSE IF a = <<>> THEN TRUE
    ELSE IF Head(a) # Head(b) THEN Head(a) < Head(b)
    ELSE TupleLess(Tail(a), Tail(b))

\* The pre-release component: Infinity for a final release, else (tag, n).
PreLess(a, b) ==
    IF a.inf THEN FALSE
    ELSE IF b.inf THEN TRUE
    ELSE IF a.l # b.l THEN StrLess(a.l, b.l)
    ELSE a.n < b.n

\* A local part: (n, "") for an int, (-Infinity, s) for a string.
LocalPartLess(a, b) ==
    IF a.num /\ b.num THEN a.n < b.n
    ELSE IF a.num THEN FALSE
    ELSE IF b.num THEN TRUE
    ELSE StrLess(a.s, b.s)

RECURSIVE LocalTupleLess(_, _)
LocalTupleLess(a, b) ==
    IF b = <<>> THEN FALSE
    ELSE IF a = <<>> THEN TRUE
    ELSE IF Head(a) # Head(b) THEN LocalPartLess(Head(a), Head(b))
    ELSE LocalTupleLess(Tail(a), Tail(b))

\* The local component: -Infinity when absent, else the tuple of parts.
LocalLess(ka, kb) ==
    IF ~kb.haslocal THEN FALSE
    ELSE IF ~ka.haslocal THEN TRUE
    ELSE LocalTupleLess(ka.local, kb.local)

\* key(a) < key(b) on comparison keys.
KeyLess(ka, kb) ==
    IF ka.release # kb.release THEN TupleLess(ka.release, kb.release)
    ELSE IF ka.pre # kb.pre THEN PreLess(ka.pre, kb.pre)
    ELSE LocalLess(ka, kb)

\* version_sort_key(a) < version_sort_key(b)
VersionLess(a, b) == KeyLess(version_sort_key(a), version_sort_key(b))

-----------------------------------------------------------------------------
(* sorted *)

\* key(x) < key(y) for the two sort keys of the program: p['id'] (line 194)
\* and version_sort_key of the version (lines 111, 156, 196).
KeyOfLess(key, x, y) ==
    IF key = "id" THEN StrLess(x.id, y.id)
    ELSE VersionLess(x.version, y.version)

\* s with x behind its first k elements.
InsertAt(s, x, k) == SubSeq(s, 1, k) \o <<x>> \o SubSeq(s, k + 1, Len(s))

\* A sort that is not stable: an element goes in front of its equals.
InsertSortedUnstable(s, x, key) ==
    InsertAt(s, x, Cardinality({n \in 1..Len(s) : KeyOfLess(key, s[n], x)}))

\* sorted is stable: an element goes behind every element that is not
\* greater.
InsertSorted(s, x, key) ==
    InsertAt(s, x, Cardinality({n \in 1..Len(s) : ~KeyOfLess(key, x, s[n])}))

\* sorted(seq, key=...)
sorted(seq, key) ==
    LET f[n \in 0..Len(seq)] ==
            IF n = 0 THEN <<>> ELSE InsertSorted(f[n - 1], seq[n], key)
    IN  f[Len(seq)]

-----------------------------------------------------------------------------
(* Matching *)

\* A match that compares with the whole pattern, its '*' included.
version_matches_whole_pattern(version, exact_or_pattern) ==
    \/ version = exact_or_pattern
    \/ /\ endswith(exact_or_pattern, "*")
       /\ startswith(version, exact_or_pattern)

\* version_matches(version, exact_or_pattern)
version_matches(version, exact_or_pattern) ==
    \/ version = exact_or_pattern
    \/ /\ endswith(exact_or_pattern, "*")
       /\ startswith(version,
                     SubSeq(exact_or_pattern, 1, Len(exact_or_pattern) - 1))

\* The test of package_search on one version entry: with a falsy
\* package_version every version is taken.
Emits(version, pv) ==
    IF Truthy(pv) THEN version_matches(version, pv.val) ELSE TRUE

-----------------------------------------------------------------------------
(* The environment: what the repositories answer *)

\* The head of the built-in catalog, list(REPOSITORIES.values()).
REPOSITORIES ==
    << "https://pkgs.dev.azure.com/dnceng/public/_packaging/dotnet5/nuget/v3/index.json",
       "https://pkgs.dev.azure.com/dnceng/public/_packaging/dotnet5-transport/nuget/v3/index.json",
       "https://pkgs.dev.azure.com/dnceng/public/_packaging/dotnet6/nuget/v3/index.json",
       "https://pkgs.dev.azure.com/dnceng/public/_packaging/dotnet6-transport/nuget/v3/index.json",
       "https://pkgs.dev.azure.com/dnceng/public/_packaging/dotnet7/nuget/v3/index.json" >>

\* repositories_from_args: one repository (--repository), the lines of a
\* file (--repository-list), or the catalog; here one catalog entry or the
\* first MaxRepos entries or fewer.
RepositoryLists ==
    {SubSeq(REPOSITORIES, 1, n) : n \in 0..MaxRepos}
        \cup {<<REPOSITORIES[n]>> : n \in 1..Len(REPOSITORIES)}

PackageNames == {"Foo"}

VersionArgs == {"", "1.*", "1.0.0"}

Resource(t, u) == [type |-> t, id |-> u]

IndexDocs ==
    { [resources |-> <<>>],
      [resources |-> << Resource("RegistrationsBaseUrl/3.0.0-rc", "r1") >>],
      [resources |-> << Resource("SearchQueryService/3.0.0-beta", "s1"),
                        Resource("PackageBaseAddress/3.0.0", "c1") >>],
      [resources |-> << Resource("SearchQueryService/3.0.0-beta", "s1"),
                        Resource("SearchQueryService", "s0"),
                        Resource("PackageBaseAddress/3.0.0", "c1"),
                        Resource("SearchQueryService/3.0.0-rc", "s2"),
                        Resource("PackageBaseAddress/3.0.0", "c2"),
                        Resource("SearchQueryService/3.5.0", "s3") >>],
      [resources |-> << Resource("SearchQueryService/3.0.0-beta", "s1"),
                        Resource("PackageBaseAddress/3.0.0", "c1"),
                        Resource("SearchQueryService/3.0.0-rc", ""),
                        Resource("PackageBaseAddress/3.0.0", "") >>] }

VersionEntry(u, v) == [id |-> u, version |-> v]

SearchDocs ==
    { [data |-> <<>>],
      [data |-> << [id |-> "Foo",
                    versions |-> << VersionEntry("Foo/2.0.0", "2.0.0"),
                                    VersionEntry("Foo/1.0.0", "1.0.0"),
                                    VersionEntry("Foo/1.1.0-beta", "1.1.0-beta") >>] >>],
      [data |-> << [id |-> "Foo.Core",
                    versions |-> << VersionEntry("Foo.Core/1.0.0", "1.0.0") >>],
                   [id |-> "Foo",
                    versions |-> << VersionEntry("Foo/1.0", "1.0"),
                                    VersionEntry("Foo/0.9.0", "0.9.0") >>] >>] }

\* What urlopen + json.load can do: deliver a document, or raise.
FetchErrors == {"HTTPError", "URLError", "JSONDecodeError"}

Responses(docs) ==
    {[status |-> "ok", body |-> d] : d \in docs}
        \cup {[status |-> e, body |-> [data |-> <<>>]] : e \in FetchErrors}

NoJson == [some |-> FALSE, val |-> [data |-> <<>>]]

\* get_json: HTTPError and URLError are caught and give None; any other
\* exception leaves the function.
get_json(resp) ==
    IF resp.status = "ok"
        THEN [raised |-> "none", value |-> [some |-> TRUE, val |-> resp.body]]
    ELSE IF resp.status \in {"HTTPError", "URLError"}
        THEN [raised |-> "none", value |-> NoJson]
    ELSE [raised |-> resp.status, value |-> NoJson]

-----------------------------------------------------------------------------
(* package_search *)

Package(name, version, repository) ==
    [name |-> name, version |-> version, repository |-> repository]

\* for r in resources: if r['@type'].startswith(prefix): url = r['@id']
\* The local is only annotated before the loop: None stands for "unbound".
ResolveEndpointFirst(resources, prefix) ==
    LET hits == {n \in 1..Len(resources) : startswith(resources[n].type, prefix)}
    IN  IF hits = {} THEN None
        ELSE Some(resources[CHOOSE n \in hits : \A m \in hits : n <= m].id)

ResolveEndpoint(resources, prefix) ==
    LET f[n \in 0..Len(resources)] ==
            IF n = 0 THEN None
            ELSE IF startswith(resources[n].type, prefix)
                 THEN Some(resources[n].id)
                 ELSE f[n - 1]
    IN  f[Len(resources)]

search_string(url, name) ==
    url \o "?q=" \o name \o "&prerelease=true&semVerLevel=2.0.0"

\* result.append(Package(...)) for each version entry of hits.
Appended(hits, repository_url) ==
    [n \in 1..Len(hits) |->
        Package(hits[n].id, hits[n].version, repository_url)]

\* The version entries of versions the spec takes, in their order.
Filtered(versions, pv) ==
    SelectSeq(versions, LAMBDA v : Emits(v.version, pv))

\* The inner loop without the sort of line 196.
PackageHitsUnsorted(pkg, pv, repository_url) ==
    Appended(Filtered(pkg.versions, pv), repository_url)

\* Lines 195-204: the inner loop of package_search over one package.
PackageHits(pkg, pv, repository_url) ==
    Appended(Filtered(sorted(pkg.versions, "version"), pv), repository_url)

\* Lines 194-204: the outer loop over the packages in the order given.
ResultOf(pkgs, pv, repository_url) ==
    LET f[n \in 0..Len(pkgs)] ==
            IF n = 0 THEN <<>>
            ELSE f[n - 1] \o PackageHits(pkgs[n], pv, repository_url)
    IN  f[Len(pkgs)]

\* Lines 191-206: the result list built from the search document.
BuildResultList(data, pv, repository_url) ==
    ResultOf(sorted(data, "id"), pv, repository_url)

NoPackage == Package("", "", "")


Idle == [pc |-> "idle"]

Init ==
    /\ command \in {"search", "download"}
    /\ package_name \in PackageNames
    /\ package_version \in {OrNone(s) : s \in VersionArgs}
    /\ repository_urls \in RepositoryLists
    /\ pc = "loop"
    /\ i = 1
    /\ j = NoJson
    /\ search_service_url = None
    /\ packages = <<>>
    /\ package = NoPackage
    /\ content_service_url = None
    /\ download_url = ""
    /\ error = "none"
    /\ fetches = <<>>
    /\ calls = <<>>
    /\ mv = Idle
    /\ vv = Idle

args == << command, package_name, package_version, repository_urls >>

harness == << mv, vv >>

Fetch(pos, kind, url, resp) ==
    [pos |-> pos, kind |-> kind, url |-> url, status |-> resp.status]

\* The command ends with an uncaught exception.
Crash(exc) ==
    /\ pc' = "crashed"
    /\ error' = exc

\* A return that leaves the loop at the same repository.
ReturnSameRepository(ret) ==
    /\ packages' = packages \o ret
    /\ i' = i
    /\ pc' = "loop"
    /\ error' = error

\* package_search returns ret, the caller extends its list (lines 107, 154),
\* the for loop moves on.
Return(ret) ==
    /\ packages' = packages \o ret
    /\ i' = i + 1
    /\ pc' = "loop"
    /\ error' = error

\* The record of a call that returned ret.
Returned(call, ret) == [call EXCEPT !.returned = TRUE, !.ret = ret]

\* Lines 162-168: the call of package_search and its fetch of the index.
FetchIndex ==
    /\ pc = "loop"
    /\ i <= Len(repository_urls)
    /\ \E resp \in Responses(IndexDocs) :
        LET r    == get_json(resp)
            call == [index |-> resp.status, resources |-> <<>>,
                     search |-> "none", data |-> <<>>,
                     returned |-> FALSE, ret |-> <<>>]
        IN  /\ fetches' = Append(fetches,
                                 Fetch(i, "index", repository_urls[i], resp))
            /\ IF r.raised # "none"
               THEN /\ Crash(r.raised)
                    /\ calls' = Append(calls, call)
                    /\ UNCHANGED << i, j, packages >>
               ELSE IF ~r.value.some
               THEN /\ Return(<<>>)
                    /\ calls' = Append(calls, Returned(call, <<>>))
                    /\ j' = j
               ELSE /\ j' = r.value
                    /\ calls' = Append(calls,
                            [call EXCEPT !.resources = resp.body.resources])
                    /\ pc' = "resolve"
                    /\ UNCHANGED << i, packages, error >>
    /\ UNCHANGED << args, search_service_url, package, content_service_url,
                    download_url, harness >>

\* Lines 170-178: the search endpoint of the index.
ResolveSearchService ==
    /\ pc = "resolve"
    /\ LET u == ResolveEndpoint(j.val.resources, "SearchQueryService/3.0")
       IN  IF ~u.some
           THEN /\ Crash("UnboundLocalError")
                /\ UNCHANGED << i, packages, calls, search_service_url >>
           ELSE IF ~Truthy(u)
           THEN /\ Return(<<>>)
                /\ calls' = [calls EXCEPT ![i] = Returned(@, <<>>)]
                /\ search_service_url' = u
           ELSE /\ search_service_url' = u
                /\ pc' = "search"
                /\ UNCHANGED << i, packages, calls, error >>
    /\ UNCHANGED << args, j, package, content_service_url, download_url,
                    fetches, harness >>

\* Lines 182-189: the query.
FetchSearch ==
    /\ pc = "search"
    /\ \E resp \in Responses(SearchDocs) :
        LET r == get_json(resp)
        IN  /\ fetches' = Append(fetches,
                    Fetch(i, "search",
                          search_string(search_service_url.val, package_name),
                          resp))
            /\ IF r.raised # "none"
               THEN /\ Crash(r.raised)
                    /\ calls' = [calls EXCEPT ![i].search = resp.status]
                    /\ UNCHANGED << i, j, packages >>
               ELSE IF ~r.value.some
               THEN /\ Return(<<>>)
                    /\ calls' = [calls EXCEPT ![i].search = resp.status,
                                              ![i].returned = TRUE]
                    /\ j' = j
               ELSE /\ j' = r.value
                    /\ calls' = [calls EXCEPT ![i].search = resp.status,
                                              ![i].data = resp.body.data]
                    /\ pc' = "build"
                    /\ UNCHANGED << i, packages, error >>
    /\ UNCHANGED << args, search_service_url, package, content_service_url,
                    download_url, harness >>

\* Lines 191-206, and the extend of the caller (lines 107, 154).
BuildResult ==
    /\ pc = "build"
    /\ LET result == BuildResultList(j.val.data, package_version,
                                      repository_urls[i])
       IN  /\ Return(result)
           /\ calls' = [calls EXCEPT ![i] = Returned(@, result)]
    /\ UNCHANGED << args, j, search_service_url, package, content_service_url,
                    download_url, fetches, harness >>

-----------------------------------------------------------------------------
(* search_command and download_command after the loop *)

\* Line 156: the aggregate in ascending version order; lines 158-159 print it.
SortResults ==
    /\ pc = "loop"
    /\ i > Len(repository_urls)
    /\ command = "search"
    /\ packages' = sorted(packages, "version")
    /\ pc' = "done"
    /\ UNCHANGED << args, i, j, search_service_url, package,
                    content_service_url, download_url, error, fetches, calls,
                    harness >>

\* The last element, packages[-1].
LastOf(ps) == ps[Len(ps)]

\* packages[0], which raises IndexError on an empty list.
FirstOf(ps) == ps[1]

\* Lines 110-113: the package to download.
SelectPackage ==
    /\ pc = "loop"
    /\ i > Len(repository_urls)
    /\ command = "download"
    /\ packages' = IF Len(packages) > 1 THEN sorted(packages, "version")
                   ELSE packages
    /\ IF Len(packages) = 0
       THEN /\ Crash("IndexError")
            /\ package' = package
       ELSE /\ package' = FirstOf(packages')
            /\ pc' = "dl_index"
            /\ error' = error
    /\ UNCHANGED << args, i, j, search_service_url, content_service_url,
                    download_url, fetches, calls, harness >>

\* Lines 117-118: the index of the package's repository is fetched again;
\* j['resources'] on None raises TypeError.
DownloadFetchIndex ==
    /\ pc = "dl_index"
    /\ \E resp \in Responses(IndexDocs) :
        LET r == get_json(resp)
        IN  /\ fetches' = Append(fetches,
                                 Fetch(0, "dl_index", package.repository, resp))
            /\ IF r.raised # "none"
               THEN Crash(r.raised) /\ j' = j
               ELSE IF ~r.value.some
               THEN Crash("TypeError") /\ j' = r.value
               ELSE /\ j' = r.value
                    /\ pc' = "dl_resolve"
                    /\ error' = error
    /\ UNCHANGED << args, i, search_service_url, packages, package,
                    content_service_url, download_url, calls, harness >>

\* str.lower
RECURSIVE lower(_)
lower(s) ==
    IF s = "" THEN ""
    ELSE LET up == {n \in 1..Len(UpperCase) : Char(UpperCase, n) = Head(s)}
         IN  (IF up = {} THEN Head(s)
              ELSE Char(LowerCase, CHOOSE n \in up : TRUE)) \o lower(Tail(s))

\* Line 130
DownloadURL(base, p) ==
    base \o "/" \o p.name \o "/" \o p.version \o "/" \o lower(p.name)
         \o "." \o lower(p.version) \o ".nupkg"

\* Lines 119-130: the content endpoint; line 125 reads repository_url, a
\* name download_command never binds.
DownloadResolve ==
    /\ pc = "dl_resolve"
    /\ LET u == ResolveEndpoint(j.val.resources, "PackageBaseAddress/3.0")
       IN  IF ~u.some
           THEN /\ Crash("UnboundLocalError")
                /\ UNCHANGED << content_service_url, download_url >>
           ELSE IF ~Truthy(u)
           THEN /\ Crash("NameError")
                /\ content_service_url' = u
                /\ download_url' = download_url
           ELSE /\ content_service_url' = u
                /\ download_url' = DownloadURL(u.val, package)
                /\ pc' = "retrieve"
                /\ error' = error
    /\ UNCHANGED << args, i, j, search_service_url, packages, package,
                    fetches, calls, harness >>

\* Lines 135-139: urlretrieve, whose exceptions nothing catches.
Retrieve ==
    /\ pc = "retrieve"
    /\ \E status \in {"ok", "HTTPError", "URLError"} :
        /\ fetches' = Append(fetches,
                Fetch(0, "nupkg", download_url, [status |-> status]))
        /\ IF status = "ok"
           THEN pc' = "done" /\ error' = error
           ELSE Crash(status)
    /\ UNCHANGED << args, i, j, search_service_url, packages, package,
                    content_service_url, download_url, calls, harness >>

Next ==
    \/ FetchIndex
    \/ ResolveSearchService
    \/ FetchSearch
    \/ BuildResult
    \/ SortResults
    \/ SelectPackage
    \/ DownloadFetchIndex
    \/ DownloadResolve
    \/ Retrieve

Spec == Init /\ [][Next]_vars

-----------------------------------------------------------------------------
(* The matching rule on its own: version_matches as package_search uses it *)

MatchAlphabet == {"1", "2", ".", "*"}

RECURSIVE Strings(_)
Strings(n) ==
    IF n = 0 THEN {""}
    ELSE LET shorter == Strings(n - 1)
         IN  shorter \cup {s \o c : s \in shorter, c \in MatchAlphabet}

MatchExamples == {"1.2.3", "1.3.0", "1.20.0", "1.2.*", "1.2*"}

MatchStrings == Strings(MaxLen) \cup MatchExamples

NoCommand ==
    /\ package_name = "Foo"
    /\ package_version = None
    /\ repository_urls = <<>>
    /\ pc = "idle"
    /\ i = 1
    /\ j = NoJson
    /\ search_service_url = None
    /\ packages = <<>>
    /\ package = NoPackage
    /\ content_service_url = None
    /\ download_url = ""
    /\ error = "none"
    /\ fetches = <<>>
    /\ calls = <<>>

InitMatch ==
    /\ command = "match"
    /\ NoCommand
    /\ \E v \in MatchStrings, s \in MatchStrings :
        mv = [pc |-> "start", version |-> v, spec |-> s, out |-> FALSE]
    /\ vv = Idle

\* Lines 101/147 and 198-204 on one version string.
Match ==
    /\ mv.pc = "start"
    /\ mv' = [mv EXCEPT !.pc = "done",
                        !.out = Emits(mv.version, OrNone(mv.spec))]
    /\ UNCHANGED << args, pc, i, j, search_service_url, packages, package,
                    content_service_url, download_url, error, fetches, calls,
                    vv >>

NextMatch == Match

SpecMatch == InitMatch /\ [][NextMatch]_vars

-----------------------------------------------------------------------------
(* The version order on its own *)

VersionStrings ==
    {"0.9.0", "1.0", "1.0.0", "1.0.0.1", "1.0.0+a", "1.0.0+b", "1.1.0-beta",
     "1.2.3", "1.5.0-beta", "1.5.0-rc.1", "1.5.0", "1.20.0", "2.0.0"}

InitVersion ==
    /\ command = "version"
    /\ NoCommand
    /\ mv = Idle
    /\ \E a \in VersionStrings, b \in VersionStrings, c \in VersionStrings :
        vv = [pc |-> "start", v |-> <<a, b, c>>,
              lt |-> [p \in (1..3) \X (1..3) |-> FALSE]]

\* version_sort_key(x) < version_sort_key(y) for every pair of the three.
Order ==
    /\ vv.pc = "start"
    /\ vv' = [vv EXCEPT !.pc = "done",
                        !.lt = [p \in (1..3) \X (1..3) |->
                                    VersionLess(vv.v[p[1]], vv.v[p[2]])]]
    /\ UNCHANGED << args, pc, i, j, search_service_url, packages, package,
                    content_service_url, download_url, error, fetches, calls,
                    mv >>

NextVersion == Order

SpecVersion == InitVersion /\ [][NextVersion]_vars

-----------------------------------------------------------------------------
(* Properties *)

SearchPrefix == "SearchQueryService/3.0"

ContentPrefix == "PackageBaseAddress/3.0"

\* The positions of the resources of the required type, in document order.
Matching(resources, prefix) ==
    {n \in 1..Len(resources) :
        \E rest \in 0..Len(resources[n].type) :
            SubSeq(resources[n].type, 1, Len(resources[n].type) - rest) = prefix}

FirstMatching(resources, prefix) ==
    LET M == Matching(resources, prefix)
    IN  resources[CHOOSE n \in M : \A m \in M : n <= m].id

LastMatching(resources, prefix) ==
    LET M == Matching(resources, prefix)
    IN  resources[CHOOSE n \in M : \A m \in M : m <= n].id

\* The concatenation, in list order, of what the calls so far returned.
Contributions ==
    LET f[n \in 0..Len(calls)] ==
            IF n = 0 THEN <<>> ELSE f[n - 1] \o calls[n].ret
    IN  f[Len(calls)]

Key(p) == version_sort_key(p.version)

KeyEqual(p, q) == ~KeyLess(Key(p), Key(q)) /\ ~KeyLess(Key(q), Key(p))

\* Where a stable ascending sort puts element k of seq.
Rank(seq, k) ==
    1 + Cardinality({m \in 1..Len(seq) : KeyLess(Key(seq[m]), Key(seq[k]))})
      + Cardinality({m \in 1..(k - 1) : KeyEqual(seq[m], seq[k])})

Ascending(seq) ==
    \A n \in 1..(Len(seq) - 1) : ~KeyLess(Key(seq[n + 1]), Key(seq[n]))

\* The call at position k is past the lookup of its search endpoint.
PastResolve(k) == ~(k = i /\ pc = "resolve")

\* The search fetch the call at position k issued, if any.
SearchFetches(k) ==
    {n \in 1..Len(fetches) : fetches[n].kind = "search" /\ fetches[n].pos = k}

\* C1: a repository whose index was fetched but names no resource of type
\* SearchQueryService/3.0... makes package_search return the empty list
\* without raising, so it does not abort the loop over the repositories.
C1_MissingSearchServiceYieldsEmpty ==
    \A k \in 1..Len(calls) :
        ( /\ calls[k].index = "ok"
          /\ Matching(calls[k].resources, SearchPrefix) = {}
          /\ PastResolve(k) )
        => (calls[k].returned /\ calls[k].ret = <<>>)

\* C2: a fetch of the index or of the search result that fails (network
\* error, non-2xx response, malformed JSON) makes package_search return the
\* empty list, and no error reaches the caller.
C2_FetchFailureYieldsEmpty ==
    \A k \in 1..Len(calls) :
        (calls[k].index \in FetchErrors \/ calls[k].search \in FetchErrors)
        => (calls[k].returned /\ calls[k].ret = <<>>)

\* C3 as stated: the endpoint used is the @id of the FIRST resource of the
\* required type, for the search and for the download.
C3_FirstMatchingEndpointUsed ==
    /\ \A k \in 1..Len(calls) : \A n \in SearchFetches(k) :
        fetches[n].url =
            search_string(FirstMatching(calls[k].resources, SearchPrefix),
                          package_name)
    /\ pc = "retrieve" =>
        download_url =
            DownloadURL(FirstMatching(j.val.resources, ContentPrefix), package)

\* C3 amended: the endpoint used is the @id of the LAST resource of the
\* required type; when that @id is empty no endpoint is used: the search
\* returns nothing and the download stops.
C3_LastMatchingEndpointUsed ==
    /\ \A k \in 1..Len(calls) :
        LET some == Matching(calls[k].resources, SearchPrefix) # {}
            last == LastMatching(calls[k].resources, SearchPrefix)
            sent == SearchFetches(k)
        IN  /\ \A n \in sent :
                /\ some
                /\ fetches[n].url = search_string(last, package_name)
            /\ (calls[k].index = "ok" /\ some /\ PastResolve(k))
               => IF last = ""
                  THEN calls[k].returned /\ calls[k].ret = <<>> /\ sent = {}
                  ELSE sent # {} \/ (k = i /\ pc = "search")
    /\ pc = "retrieve" =>
        /\ Matching(j.val.resources, ContentPrefix) # {}
        /\ LastMatching(j.val.resources, ContentPrefix) # ""
        /\ download_url =
            DownloadURL(LastMatching(j.val.resources, ContentPrefix), package)

\* A search was sent to an endpoint that is not the first of its type.
C3_Witness ==
    \E k \in 1..Len(calls) :
        /\ SearchFetches(k) # {}
        /\ Cardinality(Matching(calls[k].resources, SearchPrefix)) > 1
        /\ FirstMatching(calls[k].resources, SearchPrefix)
                # LastMatching(calls[k].resources, SearchPrefix)

\* C4: what search_command prints is the stable ascending sort, by version
\* key, of the concatenation of the repositories' contributions in list
\* order: nothing dropped or merged, versions non-decreasing, equal
\* versions in their order of arrival.
C4_AggregateIsStableSort ==
    (command = "search" /\ pc = "done") =>
        /\ Len(packages) = Len(Contributions)
        /\ \A k \in 1..Len(Contributions) :
            /\ Rank(Contributions, k) \in 1..Len(packages)
            /\ packages[Rank(Contributions, k)] = Contributions[k]
        /\ Ascending(packages)

\* A finished search whose contributions were out of order and held two
\* different packages of equal version.
C4_Witness ==
    /\ command = "search"
    /\ pc = "done"
    /\ ~Ascending(Contributions)
    /\ \E m, n \in 1..Len(Contributions) :
        /\ m < n
        /\ Contributions[m] # Contributions[n]
        /\ KeyEqual(Contributions[m], Contributions[n])

\* download_command is past its selection of a package.
Selected ==
    \/ pc \in {"dl_index", "dl_resolve", "retrieve"}
    \/ command = "download" /\ pc = "done"

\* C5: of a non-empty aggregate download_command selects the first element
\* of the ascending sort: a package no other matching package of any
\* repository is below (the only one, when there is one).
C5_LowestVersionSelected ==
    Selected =>
        /\ \E k \in 1..Len(Contributions) :
            /\ package = Contributions[k]
            /\ Rank(Contributions, k) = 1
        /\ \A k \in 1..Len(Contributions) :
            ~KeyLess(Key(Contributions[k]), Key(package))
        /\ Len(Contributions) = 1 => package = Contributions[1]

\* A selection among several packages the lowest of which did not come first.
C5_Witness ==
    /\ Selected
    /\ Len(Contributions) > 2
    /\ KeyLess(Key(package), Key(Contributions[1]))

\* C6: with an empty aggregate download_command ends in a reported "no
\* matching package found" failure, fetching no index and no artifact.
C6_EmptyAggregateReported ==
    ( /\ command = "download"
      /\ i > Len(repository_urls)
      /\ pc # "loop"
      /\ Contributions = <<>> )
    => /\ error = "NoPackageFoundError"
       /\ \A n \in 1..Len(fetches) : fetches[n].kind \in {"index", "search"}

\* C7: a version is taken exactly when the spec is empty, or equals the
\* version, or is a textual prefix of the version followed by one '*'.
C7_MatchingRule ==
    mv.pc = "done" =>
        /\ mv.out <=>
            \/ mv.spec = ""
            \/ mv.version = mv.spec
            \/ \E n \in 0..Len(mv.version) :
                    mv.spec = SubSeq(mv.version, 1, n) \o "*"
        /\ mv.version = mv.spec => mv.out
        /\ mv.spec = "" => mv.out
        /\ (mv.version = "1.20.0" /\ mv.spec = "1.2*") => mv.out
        /\ (mv.version = "1.2.3" /\ mv.spec = "1.2.*") => mv.out
        /\ (mv.version = "1.3.0" /\ mv.spec = "1.2.*") => ~mv.out

\* "1.20.0" was matched against "1.2*" and taken.
C7_Witness ==
    /\ mv.pc = "done"
    /\ mv.version = "1.20.0"
    /\ mv.spec = "1.2*"
    /\ mv.out

\* The longest version list of a search document.
MaxVersions(data) ==
    IF data = <<>> THEN 0
    ELSE LET lens == {Len(data[n].versions) : n \in 1..Len(data)}
         IN  CHOOSE x \in lens : \A y \in lens : y <= x

\* The version entries of a search document the spec takes, as positions
\* <<package, version>>.
Taken(data) ==
    {e \in (1..Len(data)) \X (1..MaxVersions(data)) :
        /\ e[2] <= Len(data[e[1]].versions)
        /\ Emits(data[e[1]].versions[e[2]].version, package_version)}

\* The id of the package of the document that holds the entry named name.
Owner(data, name) ==
    data[CHOOSE m \in 1..Len(data) :
            \E n \in 1..Len(data[m].versions) :
                data[m].versions[n].id = name].id

\* C8: after successful fetches package_search returns one Package per
\* version entry the spec matches and none for the others, each with the
\* entry's @id, its version and the repository's index URL; grouped by
\* package in ascending id order, ascending by version key in each group.
C8_SearchResult ==
    \A k \in 1..Len(calls) :
        (calls[k].search = "ok" /\ calls[k].returned) =>
            LET data == calls[k].data
                ret  == calls[k].ret
                Of(e) == Package(data[e[1]].versions[e[2]].id,
                                 data[e[1]].versions[e[2]].version,
                                 repository_urls[k])
            IN  /\ Len(ret) = Cardinality(Taken(data))
                /\ \A e \in Taken(data) :
                    Cardinality({n \in 1..Len(ret) : ret[n] = Of(e)})
                      = Cardinality({d \in Taken(data) : Of(d) = Of(e)})
                /\ \A m, n \in 1..Len(ret) :
                    m < n =>
                        /\ ~StrLess(Owner(data, ret[n].name),
                                    Owner(data, ret[m].name))
                        /\ Owner(data, ret[n].name) = Owner(data, ret[m].name)
                            => ~KeyLess(Key(ret[n]), Key(ret[m]))
                /\ ( /\ package_version = Some("1.*")
                     /\ Len(data) = 1
                     /\ \E v \in 1..Len(data[1].versions) :
                            data[1].versions[v].version = "1.1.0-beta" )
                    => [n \in 1..Len(ret) |-> ret[n].version]
                            = <<"1.0.0", "1.1.0-beta">>

\* A search with spec "1.*" returned 1.0.0 and 1.1.0-beta, in this order,
\* of a document that lists 2.0.0, 1.0.0, 1.1.0-beta.
C8_Witness ==
    \E k \in 1..Len(calls) :
        /\ calls[k].search = "ok"
        /\ calls[k].returned
        /\ package_version = Some("1.*")
        /\ Len(calls[k].data) = 1
        /\ Len(calls[k].data[1].versions) = 3
        /\ Len(calls[k].ret) = 2
        /\ calls[k].ret[2].version = "1.1.0-beta"

\* The order of three versions has been computed.
Lt(x, y) == vv.lt[<<x, y>>]

Le(x, y) == ~Lt(y, x)

IsRelease(s) == \A n \in 1..Len(s) : Char(s, n) \in Digits \cup {"."}

\* s up to its first c, or all of s.
Before(s, c) ==
    LET at == {n \in 1..Len(s) : Char(s, n) = c}
    IN  IF at = {} THEN s
        ELSE SubSeq(s, 1, (CHOOSE n \in at : \A m \in at : n <= m) - 1)

\* Segment k of a release, zero when missing.
Segment(s, k) ==
    LET r == ParseRelease(s).release IN IF k <= Len(r) THEN r[k] ELSE 0

PaddedLess(a, b) ==
    \E k \in 1..(Len(a) + Len(b)) :
        /\ Segment(a, k) < Segment(b, k)
        /\ \A m \in 1..(k - 1) : Segment(a, m) = Segment(b, m)

IsPreReleaseOf(a, b) ==
    IsRelease(b) /\ a # b /\ Before(a, "-") = b /\ Before(a, "+") = a

\* C9: the version key is a total preorder; releases compare segment by
\* segment with missing segments zero; a pre-release is below its release
\* and above every lower release; versions that differ only in their
\* build metadata (the text from "+") have equal precedence.
C9_VersionOrder ==
    vv.pc = "done" =>
        /\ \A x, y, z \in 1..3 :
            /\ ~Lt(x, x)
            /\ ~(Lt(x, y) /\ Lt(y, x))
            /\ (Le(x, y) /\ Le(y, z)) => Le(x, z)
        /\ \A x, y \in 1..3 :
            (IsRelease(vv.v[x]) /\ IsRelease(vv.v[y]))
                => (Lt(x, y) <=> PaddedLess(vv.v[x], vv.v[y]))
        /\ \A x, y, z \in 1..3 :
            IsPreReleaseOf(vv.v[x], vv.v[y]) =>
                /\ Lt(x, y)
                /\ (IsRelease(vv.v[z]) /\ Lt(z, y)) => Lt(z, x)
        /\ \A x, y \in 1..3 :
            Before(vv.v[x], "+") = Before(vv.v[y], "+")
                => (~Lt(x, y) /\ ~Lt(y, x))

\* The fetches of the loop over the repositories, in the order issued.
LoopFetches == SelectSeq(fetches, LAMBDA f : f.kind \in {"index", "search"})

\* C10: the repositories are queried one at a time in list order; for each
\* the index is fetched at most once and first, the search at most once and
\* only after an index fetch that succeeded and gave a search endpoint; no
\* fetch is repeated.
C10_SequentialFetches ==
    LET L == LoopFetches
    IN  /\ \A m, n \in 1..Len(L) :
            m < n =>
                /\ L[m].pos <= L[n].pos
                /\ L[m].pos = L[n].pos =>
                    /\ L[m].kind = "index"
                    /\ L[n].kind = "search"
                    /\ L[m].status = "ok"
                    /\ Matching(calls[L[m].pos].resources, SearchPrefix) # {}
        /\ \A n \in 1..Len(L) :
            /\ L[n].pos \in 1..Len(repository_urls)
            /\ L[n].kind = "index" =>
                /\ L[n].url = repository_urls[L[n].pos]
                /\ L[n].pos =
                    1 + Cardinality({m \in 1..(n - 1) : L[m].kind = "index"})
            /\ L[n].kind = "search" =>
                \E m \in 1..(n - 1) :
                    L[m].pos = L[n].pos /\ L[m].kind = "index"

\* The search of the first repository failed and the loop went on to fetch
\* the index of the second.
C10_Witness ==
    /\ Len(LoopFetches) >= 3
    /\ LoopFetches[2].kind = "search"
    /\ LoopFetches[2].status = "HTTPError"
    /\ LoopFetches[3].kind = "index"
    /\ LoopFetches[3].pos = 2

=============================================================================
